---- MODULE Spec2Model ----
(***************************************************************************)
(* Model of api/agent/runner_client.go: the gRPC runner client of the      *)
(* load-balancing agent.  One Exchange (one TryExec call) on one           *)
(* connection is modelled in full: the orchestrator TryExec, the receiver  *)
(* task receiveFromRunner, the streamer task sendToRunner, the capacity-   *)
(* one channel recvDone that joins them, the caller's context, and Close   *)
(* with the connection's session guard.  The worker and the transport are  *)
(* the environment: every Recv, Send, Read and Write outcome is chosen     *)
(* from a small set.                                                       *)
(***************************************************************************)
EXTENDS Integers, Sequences, FiniteSets, TLC

VARIABLES
    pc,             \* position of the TryExec call
    ret,            \* <<>> until TryExec returns, then <<committed, err>>
    via,            \* the return statement TryExec left by
    cause,          \* the error that return statement was given
    engaged,        \* client.Engage has opened a stream
    ctxErr,         \* ctx.Err(): Nil until the caller's context is done
    shutClosed,     \* session guard: CloseGroup has been called
    sessions,       \* session guard: sessions acquired and not yet released
    closePc,        \* position of Close
    streamOut,      \* client->worker messages accepted by the stream, in order
    rpc,            \* position of receiveFromRunner
    spc,            \* position of sendToRunner
    chanBuf,        \* recvDone: buffered values (capacity one)
    chanClosed,     \* recvDone: closed
    posts,          \* every <<origin, error>> handed to tryQueueError, in order
    nrecv,          \* messages returned by Recv in the main loop before Finished
    starts,         \* the HTTP Result Start messages received, in order
    rxBody,         \* the payloads of the Data Frames received, concatenated
    fin,            \* the Finished message received (a sequence of at most one)
    extras,         \* messages returned by Recv in the drain pass
    isPartialWrite, \* receiver's partial-write latch
    sinkHeader,     \* response sink: header map
    sinkStatus,     \* response sink: the WriteHeader calls, in order
    sinkBody,       \* response sink: body bytes written
    sinkWrites,     \* response sink: the Write calls <<len offered, n accepted>>
    execTime,       \* the call's user-execution-time additions, in order
    bodyLeft,       \* request body: bytes not yet read by the streamer
    bodyReader,     \* request body: the results <<n, err>> its coming Reads return
    reads,          \* the results <<n, err>> the streamer's Reads have returned
    sendFailed,     \* a Send of the streamer has failed
    callers         \* the other TryExec calls on this runner, as the guard sees them

vars == <<pc, ret, via, cause, engaged, ctxErr, shutClosed, sessions, closePc, streamOut, rpc, spc,
          chanBuf, chanClosed, posts, nrecv, starts, rxBody, fin, extras,
          isPartialWrite, sinkHeader, sinkStatus, sinkBody, sinkWrites,
          execTime, bodyLeft, bodyReader, reads, sendFailed, callers>>

(***************************************************************************)
(* Bounds of the model.                                                    *)
(***************************************************************************)
\* messages the worker sends besides Finished: before it (Result Start, Data
\* Frames, others) and after it (during the drain pass)
MaxMsgs == 2
\* bytes of the request body, where the body is not fixed empty
MaxBody == 3
\* TryExec calls on the runner besides the one modelled in full
MaxCalls == 2

(***************************************************************************)
(* Errors.  An error value is a record: kind "nil" (no error), "api" (a    *)
(* models.APIError carrying an HTTP-style code; user marks a FuncError),   *)
(* "grpc" (a transport status carrying a status code) or "plain" (any      *)
(* other error value).                                                     *)
(***************************************************************************)
Err(kind, code, str, user) == [kind |-> kind, code |-> code, str |-> str, user |-> user]

Nil == Err("nil", 0, "", FALSE)

Plain(str) == Err("plain", 0, str, FALSE)

Grpc(code) == Err("grpc", code, "rpc error", FALSE)

ErrorRunnerClosed == Plain("Runner is closed")

ErrorPureRunnerNoEOF == Plain("Purerunner missing EOF response")

EOF == Plain("EOF")

ErrShortWrite == Plain("short write")

\* http.StatusServiceUnavailable, the code of models.ErrCallTimeoutServerBusy
StatusServiceUnavailable == 503

ErrCallTimeoutServerBusy == Err("api", StatusServiceUnavailable, "Timed out - server too busy", FALSE)

\* models.NewAPIError(code, errors.New(str))
NewAPIError(code, str) == Err("api", code, str, FALSE)

\* models.NewFuncError(err): the same APIError, marked as the function's fault
NewFuncError(err) == [err EXCEPT !.user = TRUE]

\* models.GetAPIErrorCode: the code of an APIError, 0 for anything else
GetAPIErrorCode(err) == IF err.kind = "api" THEN err.code ELSE 0

\* gRPC status codes
OK == 0

Unknown == 2

Internal == 13

Unavailable == 14

\* status.Code(err) and status.Convert(err).Code(): OK for nil, the status
\* code of a transport status, Unknown for every other error
StatusCode(err) ==
    IF err.kind = "nil" THEN OK
    ELSE IF err.kind = "grpc" THEN err.code
    ELSE Unknown

isTooBusyTransportOnly(err) ==
    err # Nil /\ StatusCode(err) = GetAPIErrorCode(ErrCallTimeoutServerBusy)

isTooBusy(err) ==
    IF GetAPIErrorCode(err) = GetAPIErrorCode(ErrCallTimeoutServerBusy) THEN TRUE
    ELSE IF err # Nil /\ StatusCode(err) = GetAPIErrorCode(ErrCallTimeoutServerBusy) THEN TRUE
    ELSE FALSE

(***************************************************************************)
(* Inputs chosen by the environment.                                       *)
(***************************************************************************)
\* ctx.Err() once the context is done
CtxErrs == {Plain("context canceled")}

\* json.Marshal failure
MarshalErr == Plain("json: unsupported type")

\* failures of client.Engage
EngageErrs == {Grpc(Unavailable), Grpc(Internal)}

\* failures of Send on the stream
SendErrs == {Grpc(Unavailable), Grpc(Internal), EOF}

\* failures of Recv on the stream; EOF is the ordinary end-of-stream
RecvErrs == {EOF, Grpc(StatusServiceUnavailable), Grpc(Internal)}

\* failure of a read of the request body other than io.EOF
ReadErr == Plain("http: read on closed body")

\* failure reported by a write to the response sink
WriteErr == Plain("write: broken pipe")

\* Result Start: HTTP status codes (0: absent) and header lists
StatusCodes == {0, 200}

HeaderKeys == {"X"}

HeaderLists == {<<>>, <<<<"X", "1">>>>}

\* Data Frame payloads sent by the worker
Payloads == {<<1>>, <<2, 3>>}

\* Finished: error fields
ErrorCodes == {400, StatusServiceUnavailable}

ErrorStrs == {"", "bad input"}

\* Finished: monotonic durations (nanoseconds) and wall-clock timestamps.
\* A timestamp is 0 for the empty string, negative for an unparseable string,
\* and t > 0 for a string that parses to time t.
SchedulerDurations == {0, 1}

ExecutionDurations == {0, 5}

Timestamps == {<<1, 2, 4>>, <<2, 1, 4>>}

FinishedMsg(success, code, str, user, sched, exec, ts) ==
    [type |-> "finished", success |-> success, errorCode |-> code,
     errorStr |-> str, errorUser |-> user, schedulerDuration |-> sched,
     executionDuration |-> exec, createdAt |-> ts[1], startedAt |-> ts[2],
     completedAt |-> ts[3]]

NoTimestamps == <<0, 0, 0>>

\* the latency figures of a Finished: durations (new runners, no timestamps),
\* timestamps (old runners, no durations), or a scheduler duration together
\* with timestamps
FinishStats ==
    {<<s, e, NoTimestamps>> : s \in SchedulerDurations, e \in ExecutionDurations}
    \cup {<<0, 0, ts>> : ts \in Timestamps}
    \cup {<<1, 0, <<1, 2, 4>>>>}

\* a successful Finished carries no error fields and any latency figures; a
\* failed one carries any error fields and no latency figures
FinishedMsgs ==
    {FinishedMsg(TRUE, 0, "", FALSE, st[1], st[2], st[3]) : st \in FinishStats}
    \cup
    {FinishedMsg(FALSE, c[1], c[2], c[3], 0, 0, NoTimestamps) :
        c \in ErrorCodes \X ErrorStrs \X BOOLEAN}

ResultStartMsg(status, headers) ==
    [type |-> "start", statusCode |-> status, headers |-> headers]

DataMsg(data) == [type |-> "data", data |-> data]

\* a Result Start whose meta is not HTTP, an unknown message body, and a
\* message received after Finished
OtherStartMsg == [type |-> "start-other"]

UnknownMsg == [type |-> "unknown"]

ExtraMsg == [type |-> "extra"]

\* client->worker messages
TryMsg == [type |-> "try"]

DataFrame(data, eof) == [type |-> "data", data |-> data, eof |-> eof]

\* max buffer size for grpc data messages (scaled down from 10 * 1024)
MaxDataChunk == 2

Min(a, b) == IF a < b THEN a ELSE b

\* the request body: bytes 1, 2, ...
Body == [i \in 1..MaxBody |-> i]

\* what one Read into writeBuffer may return with k bytes of body left: up to
\* len(writeBuffer) bytes, with no error, with io.EOF once the body is used
\* up, or with another error
ReadResults(k) ==
    {<<n, Nil>> : n \in 0..Min(MaxDataChunk, k)}
    \cup {<<n, ReadErr>> : n \in 0..Min(MaxDataChunk, k)}
    \cup {<<n, EOF>> : n \in {k} \cap 0..MaxDataChunk}

\* isEOF := err != nil || n == 0
IsEOF(r) == r[2] # Nil \/ r[1] = 0

RECURSIVE BodyReaders(_)
\* the readers of a body of k bytes, each as the sequence of results its
\* Reads return until the streamer stops reading; a Read beyond the end of
\* the sequence blocks
BodyReaders(k) ==
    {<<>>}
    \cup {<<r>> : r \in {x \in ReadResults(k) : IsEOF(x)}}
    \cup UNION {{<<r>> \o rest : rest \in BodyReaders(k - r[1])} :
                 r \in {x \in ReadResults(k) : ~IsEOF(x)}}

\* the reader of an empty body: end-of-stream at once
EmptyBodyReader == <<<<0, EOF>>>>

(***************************************************************************)
(* Initial state: a connected runner, no call in progress.                 *)
(***************************************************************************)
Calls == 1..MaxCalls

\* a TryExec call not yet started: its position, the return statement it
\* left by, and its AddSession successes and DoneSession calls so far
IdleCall == [pc |-> "idle", via |-> "none", acquired |-> 0, released |-> 0]

Start ==
    /\ pc = "idle"
    /\ ret = <<>>
    /\ via = "none"
    /\ cause = Nil
    /\ engaged = FALSE
    /\ ctxErr = Nil
    /\ shutClosed = FALSE
    /\ sessions = 0
    /\ closePc = "idle"
    /\ streamOut = <<>>
    /\ rpc = "none"
    /\ spc = "none"
    /\ chanBuf = <<>>
    /\ chanClosed = FALSE
    /\ posts = <<>>
    /\ nrecv = 0
    /\ starts = <<>>
    /\ rxBody = <<>>
    /\ fin = <<>>
    /\ extras = 0
    /\ isPartialWrite = FALSE
    /\ sinkHeader = [k \in HeaderKeys |-> ""]
    /\ sinkStatus = <<>>
    /\ sinkBody = <<>>
    /\ sinkWrites = <<>>
    /\ execTime = <<>>
    /\ reads = <<>>
    /\ sendFailed = FALSE
    /\ callers = [c \in Calls |-> IdleCall]

\* the call carries an empty request body
Init ==
    /\ Start
    /\ bodyLeft = <<>>
    /\ bodyReader = EmptyBodyReader

\* the call carries a body of up to MaxBody bytes and any reader of it
InitSend ==
    /\ Start
    /\ \E k \in 0..MaxBody :
        /\ bodyLeft = SubSeq(Body, 1, k)
        /\ bodyReader \in BodyReaders(k)

rxVars == <<nrecv, starts, rxBody, fin, extras>>

recvVars == <<rpc, chanBuf, chanClosed, posts, rxVars, isPartialWrite, sinkHeader,
              sinkStatus, sinkBody, sinkWrites, execTime>>

bodyVars == <<bodyLeft, bodyReader, reads>>

sendVars == <<spc, bodyVars, sendFailed>>

\* the guard's flag, Close, and the other callers
guardVars == <<shutClosed, closePc, callers>>

(***************************************************************************)
(* The caller's context.                                                   *)
(***************************************************************************)
CtxCancel ==
    /\ ctxErr = Nil
    /\ \E e \in CtxErrs : ctxErr' = e
    /\ UNCHANGED <<pc, ret, via, cause, engaged, sessions, streamOut, recvVars, sendVars, guardVars>>

(***************************************************************************)
(* Close and the session guard (common.WaitGroup).                         *)
(***************************************************************************)
\* r.shutWg.CloseGroup(): mark the guard closed ...
CloseGroup ==
    /\ closePc = "idle"
    /\ shutClosed' = TRUE
    /\ closePc' = "wait"
    /\ UNCHANGED <<pc, ret, via, cause, engaged, ctxErr, sessions, streamOut, recvVars, sendVars,
                   callers>>

\* ... wait until no session is held, then r.conn.Close()
CloseConn ==
    /\ closePc = "wait"
    /\ sessions = 0
    /\ closePc' = "closed"
    /\ UNCHANGED <<pc, ret, via, cause, engaged, ctxErr, shutClosed, sessions, streamOut, recvVars,
                   sendVars, callers>>

(***************************************************************************)
(* TryExec.                                                                *)
(***************************************************************************)
ClosedResultCommitted == <<TRUE, ErrorRunnerClosed>>

\* what TryExec returns when the guard refuses the session
ClosedResult == <<FALSE, ErrorRunnerClosed>>

\* what TryExec returns when the model cannot be encoded
MarshalFailResult(err) == <<TRUE, err>>

EngageFailResultCommitted(err) == <<TRUE, err>>

\* what TryExec returns when Engage fails
EngageFailResult(err) == <<FALSE, err>>

SendFailResultAlwaysRetry(err) == <<FALSE, err>>

\* what TryExec returns when the send of the TryCall fails
SendFailResult(err) ==
    LET isRetriable == StatusCode(err) = Unavailable
    IN  <<~isRetriable, err>>

CtxDoneResultRetry(err) == <<FALSE, err>>

\* what TryExec returns when ctx.Done() wins the select
CtxDoneResult(err) == <<TRUE, err>>

RecvDoneResultRetryAnyError(recvErr) ==
    IF recvErr # Nil THEN <<FALSE, ErrCallTimeoutServerBusy>>
    ELSE <<TRUE, recvErr>>

\* what TryExec returns when recvDone wins the select
RecvDoneResult(recvErr) ==
    IF isTooBusy(recvErr) THEN <<FALSE, ErrCallTimeoutServerBusy>>
    ELSE <<TRUE, recvErr>>

\* r.shutWg.AddSession(1), and the return when it is refused
TryExecAddSession ==
    /\ pc = "idle"
    /\ IF shutClosed
       THEN /\ pc' = "done"
            /\ ret' = ClosedResult
            /\ via' = "closed"
            /\ UNCHANGED sessions
       ELSE /\ pc' = "marshal"
            /\ sessions' = sessions + 1
            /\ UNCHANGED <<ret, via>>
    /\ UNCHANGED <<cause, engaged, ctxErr, streamOut, recvVars, sendVars, guardVars>>

\* json.Marshal(call.Model()); a return runs the deferred DoneSession
TryExecMarshal ==
    /\ pc = "marshal"
    /\ \E err \in {Nil, MarshalErr} :
        IF err # Nil
        THEN /\ pc' = "done"
             /\ ret' = MarshalFailResult(err)
             /\ via' = "marshal"
             /\ cause' = err
             /\ sessions' = sessions - 1
        ELSE /\ pc' = "engage"
             /\ UNCHANGED <<ret, via, cause, sessions>>
    /\ UNCHANGED <<engaged, ctxErr, streamOut, recvVars, sendVars, guardVars>>

\* r.client.Engage(ctx)
TryExecEngage ==
    /\ pc = "engage"
    /\ \E err \in {Nil} \cup EngageErrs :
        IF err # Nil
        THEN /\ pc' = "done"
             /\ ret' = EngageFailResult(err)
             /\ via' = "engage"
             /\ cause' = err
             /\ sessions' = sessions - 1
             /\ UNCHANGED engaged
        ELSE /\ pc' = "send"
             /\ engaged' = TRUE
             /\ UNCHANGED <<ret, via, cause, sessions>>
    /\ UNCHANGED <<ctxErr, streamOut, recvVars, sendVars, guardVars>>

TryExecSendLaunchFirst ==
    /\ pc = "send"
    /\ rpc' = "loop"
    /\ spc' = "run"
    /\ \E err \in {Nil} \cup SendErrs :
        IF err # Nil
        THEN /\ pc' = "done"
             /\ ret' = SendFailResult(err)
             /\ via' = "send"
             /\ cause' = err
             /\ sessions' = sessions - 1
             /\ UNCHANGED streamOut
        ELSE /\ pc' = "race"
             /\ streamOut' = Append(streamOut, TryMsg)
             /\ UNCHANGED <<ret, via, cause, sessions>>
    /\ UNCHANGED <<engaged, ctxErr, chanBuf, chanClosed, posts, rxVars, isPartialWrite,
                   sinkHeader, sinkStatus, sinkBody, sinkWrites, execTime,
                   bodyVars, sendFailed, guardVars>>

\* runnerConnection.Send(TryCall); on success make recvDone and launch the
\* receiver and the streamer
TryExecSend ==
    /\ pc = "send"
    /\ \E err \in {Nil} \cup SendErrs :
        IF err # Nil
        THEN /\ pc' = "done"
             /\ ret' = SendFailResult(err)
             /\ via' = "send"
             /\ cause' = err
             /\ sessions' = sessions - 1
             /\ UNCHANGED <<streamOut, rpc, spc>>
        ELSE /\ pc' = "race"
             /\ streamOut' = Append(streamOut, TryMsg)
             /\ rpc' = "loop"
             /\ spc' = "run"
             /\ UNCHANGED <<ret, via, cause, sessions>>
    /\ UNCHANGED <<engaged, ctxErr, chanBuf, chanClosed, posts, rxVars, isPartialWrite,
                   sinkHeader, sinkStatus, sinkBody, sinkWrites, execTime,
                   bodyVars, sendFailed, guardVars>>

\* select: case <-ctx.Done()
TryExecCtxDone ==
    /\ pc = "race"
    /\ ctxErr # Nil
    /\ pc' = "done"
    /\ ret' = CtxDoneResult(ctxErr)
    /\ via' = "ctx"
    /\ cause' = ctxErr
    /\ sessions' = sessions - 1
    /\ UNCHANGED <<engaged, ctxErr, streamOut, recvVars, sendVars, guardVars>>

\* select: case recvErr := <-recvDone (a closed, empty channel yields nil)
TryExecRecvDone ==
    /\ pc = "race"
    /\ chanBuf # <<>> \/ chanClosed
    /\ LET recvErr == IF chanBuf # <<>> THEN Head(chanBuf) ELSE Nil
       IN  /\ ret' = RecvDoneResult(recvErr)
           /\ cause' = recvErr
    /\ via' = "recv"
    /\ chanBuf' = IF chanBuf # <<>> THEN Tail(chanBuf) ELSE chanBuf
    /\ pc' = "done"
    /\ sessions' = sessions - 1
    /\ UNCHANGED <<engaged, ctxErr, streamOut, rpc, chanClosed, posts, rxVars, isPartialWrite,
                   sinkHeader, sinkStatus, sinkBody, sinkWrites, execTime,
                   sendVars, guardVars>>

(***************************************************************************)
(* receiveFromRunner.                                                      *)
(***************************************************************************)
\* capacity of recvDone
RecvDoneCap == 1

\* select { case done <- err: default: }: the new buffer of done
tryQueueError(err, done) ==
    IF Len(done) < RecvDoneCap THEN Append(done, err) ELSE done

parseErrorNeverFuncError(msg) ==
    IF msg.success THEN Nil
    ELSE NewAPIError(msg.errorCode,
                     IF msg.errorStr = "" THEN "Unknown Error From Pure Runner"
                     ELSE msg.errorStr)

parseError(msg) ==
    IF msg.success THEN Nil
    ELSE LET eCode == msg.errorCode
             eStr  == IF msg.errorStr = "" THEN "Unknown Error From Pure Runner"
                      ELSE msg.errorStr
             err   == NewAPIError(eCode, eStr)
         IN  IF msg.errorUser THEN NewFuncError(err) ELSE err

\* the zero time (0) for an empty or unparseable string
translateDate(dt) == IF dt > 0 THEN dt ELSE 0

recordFinishStatsSchedLatency(msg, added) ==
    IF msg.schedulerDuration # 0 THEN Append(added, msg.schedulerDuration)
    ELSE added

recordFinishStatsFallbackFirst(msg, added) ==
    IF /\ msg.createdAt > 0 /\ msg.startedAt > 0 /\ msg.completedAt > 0
       /\ msg.startedAt >= msg.createdAt /\ msg.completedAt >= msg.startedAt
    THEN Append(added, msg.completedAt - msg.startedAt)
    ELSE IF msg.executionDuration # 0 THEN Append(added, msg.executionDuration)
    ELSE added

\* the call's execution-time additions after recordFinishStats(msg)
recordFinishStats(msg, added) ==
    LET runnerSchedLatency == msg.schedulerDuration
        runnerExecLatency  == msg.executionDuration
        creatTs == translateDate(msg.createdAt)
        startTs == translateDate(msg.startedAt)
        complTs == translateDate(msg.completedAt)
    IN  IF runnerSchedLatency # 0 \/ runnerExecLatency # 0
        THEN IF runnerExecLatency # 0 THEN Append(added, runnerExecLatency)
             ELSE added
        ELSE IF /\ creatTs # 0 /\ startTs # 0 /\ complTs # 0
                /\ ~(startTs < creatTs) /\ ~(complTs < startTs)
             THEN Append(added, complTs - startTs)
             ELSE added

RECURSIVE SetHeaders(_, _)
\* for _, header := range headers { w.Header().Set(header.Key, header.Value) }
SetHeaders(h, headers) ==
    IF headers = <<>> THEN h
    ELSE SetHeaders([h EXCEPT ![Head(headers)[1]] = Head(headers)[2]], Tail(headers))

\* the WriteHeader calls after a Result Start with this status code
WriteStatus(calls, statusCode) ==
    IF statusCode > 0 THEN Append(calls, statusCode) ELSE calls

\* case *pb.RunnerMsg_ResultStart with HTTP meta
RecvResultStart ==
    /\ rpc = "loop"
    /\ nrecv < MaxMsgs
    /\ \E status \in StatusCodes, headers \in HeaderLists :
        /\ starts' = Append(starts, ResultStartMsg(status, headers))
        /\ sinkHeader' = SetHeaders(sinkHeader, headers)
        /\ sinkStatus' = WriteStatus(sinkStatus, status)
    /\ nrecv' = nrecv + 1
    /\ UNCHANGED <<pc, ret, via, cause, engaged, ctxErr, sessions, streamOut, rpc, chanBuf, chanClosed,
                   posts, rxBody, fin, extras, isPartialWrite, sinkBody, sinkWrites, execTime,
                   sendVars, guardVars>>

\* a Result Start with another meta, or an unknown message body: logged only
RecvIgnored ==
    /\ rpc = "loop"
    /\ nrecv < MaxMsgs
    /\ \E msg \in {OtherStartMsg, UnknownMsg} : nrecv' = nrecv + 1
    /\ UNCHANGED <<pc, ret, via, cause, engaged, ctxErr, sessions, streamOut, rpc, chanBuf, chanClosed,
                   posts, starts, rxBody, fin, extras, isPartialWrite, sinkHeader, sinkStatus, sinkBody,
                   sinkWrites, execTime, sendVars, guardVars>>

RecvDataNoLatch ==
    /\ rpc = "loop"
    /\ nrecv < MaxMsgs
    /\ \E data \in Payloads :
        /\ rxBody' = rxBody \o DataMsg(data).data
        /\ \E n \in 0..Len(data) :
               /\ sinkBody' = sinkBody \o SubSeq(data, 1, n)
               /\ sinkWrites' = Append(sinkWrites, <<Len(data), n>>)
               /\ IF n # Len(data)
                  THEN /\ isPartialWrite' = TRUE
                       /\ chanBuf' = tryQueueError(ErrShortWrite, chanBuf)
                       /\ posts' = Append(posts, <<"write", ErrShortWrite>>)
                  ELSE UNCHANGED <<isPartialWrite, chanBuf, posts>>
    /\ nrecv' = nrecv + 1
    /\ UNCHANGED <<pc, ret, via, cause, engaged, ctxErr, sessions, streamOut, rpc, chanClosed,
                   starts, fin, extras, sinkHeader, sinkStatus, execTime, sendVars, guardVars>>

\* case *pb.RunnerMsg_Data: w.Write returns (n, err), an error only with a
\* short count
RecvData ==
    /\ rpc = "loop"
    /\ nrecv < MaxMsgs
    /\ \E data \in Payloads :
        /\ rxBody' = rxBody \o DataMsg(data).data
        /\ IF ~isPartialWrite
           THEN \E n \in 0..Len(data), werr \in {Nil, WriteErr} :
                   /\ werr # Nil => n < Len(data)
                   /\ sinkBody' = sinkBody \o SubSeq(data, 1, n)
                   /\ sinkWrites' = Append(sinkWrites, <<Len(data), n>>)
                   /\ IF n # Len(data)
                      THEN LET err == IF werr = Nil THEN ErrShortWrite ELSE werr
                           IN  /\ isPartialWrite' = TRUE
                               /\ chanBuf' = tryQueueError(err, chanBuf)
                               /\ posts' = Append(posts, <<"write", err>>)
                      ELSE UNCHANGED <<isPartialWrite, chanBuf, posts>>
           ELSE UNCHANGED <<sinkBody, sinkWrites, isPartialWrite, chanBuf, posts>>
    /\ nrecv' = nrecv + 1
    /\ UNCHANGED <<pc, ret, via, cause, engaged, ctxErr, sessions, streamOut, rpc, chanClosed,
                   starts, fin, extras, sinkHeader, sinkStatus, execTime, sendVars, guardVars>>

\* case *pb.RunnerMsg_Finished: record stats, post the error of a failure,
\* break DataLoop
RecvFinished ==
    /\ rpc = "loop"
    /\ \E msg \in FinishedMsgs :
        /\ fin' = <<msg>>
        /\ execTime' = recordFinishStats(msg, execTime)
        /\ IF ~msg.success
           THEN /\ chanBuf' = tryQueueError(parseError(msg), chanBuf)
                /\ posts' = Append(posts, <<"finished", parseError(msg)>>)
           ELSE UNCHANGED <<chanBuf, posts>>
    /\ rpc' = "drain"
    /\ UNCHANGED <<pc, ret, via, cause, engaged, ctxErr, sessions, streamOut, chanClosed,
                   nrecv, starts, rxBody, extras, isPartialWrite,
                   sinkHeader, sinkStatus, sinkBody, sinkWrites, sendVars, guardVars>>

RecvErrorContinue ==
    /\ rpc = "loop"
    /\ \E err \in RecvErrs :
        /\ chanBuf' = tryQueueError(err, chanBuf)
        /\ posts' = Append(posts, <<"recv", err>>)
    /\ UNCHANGED <<pc, ret, via, cause, engaged, ctxErr, sessions, streamOut, rpc, chanClosed,
                   rxVars, isPartialWrite, sinkHeader, sinkStatus, sinkBody, sinkWrites,
                   execTime, sendVars, guardVars>>

\* Recv fails in the main loop: post the error, return (deferred close(done))
RecvError ==
    /\ rpc = "loop"
    /\ \E err \in RecvErrs :
        /\ chanBuf' = tryQueueError(err, chanBuf)
        /\ posts' = Append(posts, <<"recv", err>>)
    /\ chanClosed' = TRUE
    /\ rpc' = "exited"
    /\ UNCHANGED <<pc, ret, via, cause, engaged, ctxErr, sessions, streamOut, rxVars, isPartialWrite,
                   sinkHeader, sinkStatus, sinkBody, sinkWrites, execTime,
                   sendVars, guardVars>>

DrainEOFNoClose ==
    /\ rpc = "drain"
    /\ rpc' = "exited"
    /\ UNCHANGED <<pc, ret, via, cause, engaged, ctxErr, sessions, streamOut, chanBuf, chanClosed,
                   posts, rxVars, isPartialWrite, sinkHeader, sinkStatus, sinkBody, sinkWrites,
                   execTime, sendVars, guardVars>>

\* drain pass: Recv returns io.EOF
DrainEOF ==
    /\ rpc = "drain"
    /\ chanClosed' = TRUE
    /\ rpc' = "exited"
    /\ UNCHANGED <<pc, ret, via, cause, engaged, ctxErr, sessions, streamOut, chanBuf, posts, rxVars,
                   isPartialWrite, sinkHeader, sinkStatus, sinkBody, sinkWrites,
                   execTime, sendVars, guardVars>>

\* drain pass: Recv returns another error
DrainError ==
    /\ rpc = "drain"
    /\ \E err \in RecvErrs \ {EOF} :
        /\ chanBuf' = tryQueueError(err, chanBuf)
        /\ posts' = Append(posts, <<"drain", err>>)
    /\ chanClosed' = TRUE
    /\ rpc' = "exited"
    /\ UNCHANGED <<pc, ret, via, cause, engaged, ctxErr, sessions, streamOut, rxVars, isPartialWrite,
                   sinkHeader, sinkStatus, sinkBody, sinkWrites, execTime,
                   sendVars, guardVars>>

\* drain pass: Recv returns a message
DrainMsg ==
    /\ rpc = "drain"
    /\ nrecv + extras < MaxMsgs
    /\ extras' = extras + 1
    /\ chanBuf' = tryQueueError(ErrorPureRunnerNoEOF, chanBuf)
    /\ posts' = Append(posts, <<"noeof", ErrorPureRunnerNoEOF>>)
    /\ UNCHANGED <<pc, ret, via, cause, engaged, ctxErr, sessions, streamOut, rpc, chanClosed,
                   nrecv, starts, rxBody, fin, isPartialWrite, sinkHeader, sinkStatus,
                   sinkBody, sinkWrites, execTime, sendVars, guardVars>>

(***************************************************************************)
(* sendToRunner: one iteration of its loop.                                *)
(***************************************************************************)
StreamerIterNoEmptyFrame ==
    /\ spc = "run"
    /\ bodyReader # <<>>
    /\ LET n     == Head(bodyReader)[1]
           rerr  == Head(bodyReader)[2]
           isEOF == rerr # Nil \/ n = 0
           data  == SubSeq(bodyLeft, 1, n)
       IN  /\ bodyReader' = Tail(bodyReader)
           /\ reads' = Append(reads, <<n, rerr>>)
           /\ bodyLeft' = SubSeq(bodyLeft, n + 1, Len(bodyLeft))
           /\ IF n = 0
              THEN /\ spc' = "exited"
                   /\ UNCHANGED <<streamOut, sendFailed>>
              ELSE \E sendErr \in {Nil} \cup SendErrs :
                    IF sendErr # Nil
                    THEN /\ spc' = "exited"
                         /\ sendFailed' = TRUE
                         /\ UNCHANGED streamOut
                    ELSE /\ streamOut' = Append(streamOut, DataFrame(data, isEOF))
                         /\ spc' = IF isEOF THEN "exited" ELSE "run"
                         /\ UNCHANGED sendFailed
    /\ UNCHANGED <<pc, ret, via, cause, engaged, ctxErr, sessions, recvVars, guardVars>>

StreamerIterStopOnReadError ==
    /\ spc = "run"
    /\ bodyReader # <<>>
    /\ LET n     == Head(bodyReader)[1]
           rerr  == Head(bodyReader)[2]
           isEOF == rerr # Nil \/ n = 0
           data  == SubSeq(bodyLeft, 1, n)
       IN  /\ bodyReader' = Tail(bodyReader)
           /\ reads' = Append(reads, <<n, rerr>>)
           /\ bodyLeft' = SubSeq(bodyLeft, n + 1, Len(bodyLeft))
           /\ IF rerr \notin {Nil, EOF}
              THEN /\ spc' = "exited"
                   /\ UNCHANGED <<streamOut, sendFailed>>
              ELSE \E sendErr \in {Nil} \cup SendErrs :
                    IF sendErr # Nil
                    THEN /\ spc' = "exited"
                         /\ sendFailed' = TRUE
                         /\ UNCHANGED streamOut
                    ELSE /\ streamOut' = Append(streamOut, DataFrame(data, isEOF))
                         /\ spc' = IF isEOF THEN "exited" ELSE "run"
                         /\ UNCHANGED sendFailed
    /\ UNCHANGED <<pc, ret, via, cause, engaged, ctxErr, sessions, recvVars, guardVars>>

\* Read returns (n, rerr), the next result of the body's reader, and blocks
\* when the reader has none; the Data Frame is sent whatever Read returned
StreamerIter ==
    /\ spc = "run"
    /\ bodyReader # <<>>
    /\ LET n     == Head(bodyReader)[1]
           rerr  == Head(bodyReader)[2]
           isEOF == rerr # Nil \/ n = 0
           data  == SubSeq(bodyLeft, 1, n)
       IN  /\ bodyReader' = Tail(bodyReader)
           /\ reads' = Append(reads, <<n, rerr>>)
           /\ bodyLeft' = SubSeq(bodyLeft, n + 1, Len(bodyLeft))
           /\ \E sendErr \in {Nil} \cup SendErrs :
                IF sendErr # Nil
                THEN /\ spc' = "exited"
                     /\ sendFailed' = TRUE
                     /\ UNCHANGED streamOut
                ELSE /\ streamOut' = Append(streamOut, DataFrame(data, isEOF))
                     /\ spc' = IF isEOF THEN "exited" ELSE "run"
                     /\ UNCHANGED sendFailed
    /\ UNCHANGED <<pc, ret, via, cause, engaged, ctxErr, sessions, recvVars, guardVars>>

(***************************************************************************)
(* The other TryExec calls on the runner, as far as the session guard is   *)
(* concerned: AddSession, the steps up to the select, and the deferred     *)
(* DoneSession that runs at each return.                                   *)
(***************************************************************************)
callFrame == <<pc, ret, via, cause, engaged, ctxErr, streamOut, recvVars, sendVars,
               shutClosed, closePc>>

DoneSessionNotOnCancel(c, v) ==
    /\ callers' = [callers EXCEPT ![c].pc = "done", ![c].via = v,
                              ![c].released = IF v = "ctx" THEN @ ELSE @ + 1]
    /\ sessions' = IF v = "ctx" THEN sessions ELSE sessions - 1

\* a return of call c by statement v: defer r.shutWg.DoneSession()
DoneSession(c, v) ==
    /\ callers' = [callers EXCEPT ![c].pc = "done", ![c].via = v, ![c].released = @ + 1]
    /\ sessions' = sessions - 1

\* r.shutWg.AddSession(1), and the return when it is refused
CallAddSession(c) ==
    /\ callers[c].pc = "idle"
    /\ IF shutClosed
       THEN /\ callers' = [callers EXCEPT ![c].pc = "done", ![c].via = "closed"]
            /\ UNCHANGED sessions
       ELSE /\ callers' = [callers EXCEPT ![c].pc = "marshal", ![c].acquired = @ + 1]
            /\ sessions' = sessions + 1
    /\ UNCHANGED callFrame

\* json.Marshal(call.Model())
CallMarshal(c) ==
    /\ callers[c].pc = "marshal"
    /\ \E err \in {Nil, MarshalErr} :
        IF err # Nil THEN DoneSession(c, "marshal")
        ELSE callers' = [callers EXCEPT ![c].pc = "engage"] /\ UNCHANGED sessions
    /\ UNCHANGED callFrame

\* r.client.Engage(ctx)
CallEngage(c) ==
    /\ callers[c].pc = "engage"
    /\ \E err \in {Nil} \cup EngageErrs :
        IF err # Nil THEN DoneSession(c, "engage")
        ELSE callers' = [callers EXCEPT ![c].pc = "send"] /\ UNCHANGED sessions
    /\ UNCHANGED callFrame

\* runnerConnection.Send(TryCall)
CallSend(c) ==
    /\ callers[c].pc = "send"
    /\ \E err \in {Nil} \cup SendErrs :
        IF err # Nil THEN DoneSession(c, "send")
        ELSE callers' = [callers EXCEPT ![c].pc = "race"] /\ UNCHANGED sessions
    /\ UNCHANGED callFrame

\* the select of call c: its context is done, or its recvDone yields
CallSelect(c) ==
    /\ callers[c].pc = "race"
    /\ \E v \in {"ctx", "recv"} : DoneSession(c, v)
    /\ UNCHANGED callFrame

(***************************************************************************)
(* The specification.                                                      *)
(***************************************************************************)
Next ==
    \/ CtxCancel
    \/ CloseGroup
    \/ CloseConn
    \/ TryExecAddSession
    \/ TryExecMarshal
    \/ TryExecEngage
    \/ TryExecSend
    \/ TryExecCtxDone
    \/ TryExecRecvDone
    \/ RecvResultStart
    \/ RecvIgnored
    \/ RecvData
    \/ RecvFinished
    \/ RecvError
    \/ DrainEOF
    \/ DrainError
    \/ DrainMsg
    \/ StreamerIter

Spec == Init /\ [][Next]_vars

\* the exchange up to the launch of the tasks, and the streamer, for a call
\* with a request body
NextSend ==
    \/ TryExecAddSession
    \/ TryExecMarshal
    \/ TryExecEngage
    \/ TryExecSend
    \/ StreamerIter

SpecSend == InitSend /\ [][NextSend]_vars

\* the call carries an empty request body whose reader reports end-of-stream
\* at once, or whose Read does not return
InitLive ==
    /\ Start
    /\ bodyLeft = <<>>
    /\ bodyReader \in {EmptyBodyReader, <<>>}

\* the stream was opened with the caller's context: once the context is
\* done, Recv returns no message and Send fails
StreamUsable == ctxErr = Nil

TryExecNext ==
    \/ TryExecAddSession
    \/ TryExecMarshal
    \/ TryExecEngage
    \/ TryExecSend
    \/ TryExecCtxDone
    \/ TryExecRecvDone

ReceiverNext ==
    \/ (StreamUsable /\ RecvResultStart)
    \/ (StreamUsable /\ RecvIgnored)
    \/ (StreamUsable /\ RecvData)
    \/ (StreamUsable /\ RecvFinished)
    \/ RecvError
    \/ DrainEOF
    \/ DrainError
    \/ (StreamUsable /\ DrainMsg)

StreamerNext == StreamerIter /\ (StreamUsable \/ sendFailed')

NextLive ==
    \/ CtxCancel
    \/ TryExecNext
    \/ ReceiverNext
    \/ StreamerNext

\* concurrent TryExec calls and Close on one runner: the call modelled in
\* full, with a receiver that fails, and the other callers
NextGuard ==
    \/ CtxCancel
    \/ CloseGroup
    \/ CloseConn
    \/ TryExecNext
    \/ RecvError
    \/ \E c \in Calls :
        \/ CallAddSession(c)
        \/ CallMarshal(c)
        \/ CallEngage(c)
        \/ CallSend(c)
        \/ CallSelect(c)

SpecGuard == Init /\ [][NextGuard]_vars

\* TryExec and the two goroutines are scheduled as long as they can run
SpecLive ==
    /\ InitLive
    /\ [][NextLive]_vars
    /\ WF_vars(TryExecNext)
    /\ WF_vars(ReceiverNext)
    /\ WF_vars(StreamerNext)

(***************************************************************************)
(* Vocabulary of the claims.                                               *)
(***************************************************************************)
Returned == pc = "done"

\* the send of the Placement Request returned success
PlacementSent == streamOut # <<>> /\ Head(streamOut) = TryMsg

\* the busy code, by either channel, as the claims word it
IsBusyError(err) ==
    \/ err.kind = "api" /\ err.code = 503
    \/ err.kind = "grpc" /\ err.code = 503

HasFinished == fin # <<>>

Fin == fin[1]

RECURSIVE SumSeq(_)
SumSeq(q) == IF q = <<>> THEN 0 ELSE Head(q) + SumSeq(Tail(q))

\* nothing of the exchange has reached the response sink
SinkUntouched ==
    /\ sinkStatus = <<>>
    /\ \A k \in HeaderKeys : sinkHeader[k] = ""
    /\ sinkBody = <<>>

\* no receiver or streamer was launched and nothing was sent on a stream
NothingLaunched == rpc = "none" /\ spc = "none" /\ streamOut = <<>>

(***************************************************************************)
(* C1: once the send of the Placement Request has succeeded, TryExec       *)
(* returns committed=false only when the error it took from recvDone       *)
(* classifies as busy, and then the error is ErrCallTimeoutServerBusy;     *)
(* every other outcome (nil, another receiver error, the context's error)  *)
(* is returned unchanged with committed=true.                              *)
(***************************************************************************)
C1_CommittedAfterSend ==
    (Returned /\ PlacementSent) =>
        /\ via \in {"ctx", "recv"}
        /\ IF via = "recv" /\ IsBusyError(cause)
           THEN ret = <<FALSE, ErrCallTimeoutServerBusy>>
           ELSE ret = <<TRUE, cause>>
        /\ via = "ctx" => cause = ctxErr /\ ctxErr # Nil

C1_Witness ==
    /\ Returned /\ PlacementSent
    /\ via = "recv" /\ cause = Grpc(503)
    /\ ret = <<FALSE, ErrCallTimeoutServerBusy>>

(***************************************************************************)
(* C2: whenever TryExec has returned committed=false, the receiver has     *)
(* committed no status code and written no header and no body byte to the  *)
(* response sink.                                                          *)
(***************************************************************************)
C2_NoSideEffectWhenNotCommitted ==
    (Returned /\ ret[1] = FALSE) => SinkUntouched

(***************************************************************************)
(* C3: when the session guard refuses the session, TryExec returns at once *)
(* with the closed-runner error, opens no stream, sends nothing and        *)
(* launches no task.  As claimed, with committed=true:                     *)
(***************************************************************************)
C3_ClosedIsCommitted ==
    (Returned /\ via = "closed") =>
        /\ ret = <<TRUE, ErrorRunnerClosed>>
        /\ ~engaged /\ NothingLaunched

\* C3 as the code has it: the refusal is reported with committed=false
\* (try another runner), the step from the refusal is the return itself, and
\* no stream is opened, nothing is sent and no task is launched.
C3_ClosedIsNotCommitted ==
    /\ [][(pc = "idle" /\ shutClosed /\ pc' # pc) =>
            (pc' = "done" /\ ret' = <<FALSE, ErrorRunnerClosed>> /\ sessions' = sessions)]_vars
    /\ []((Returned /\ via = "closed") =>
            (ret = <<FALSE, ErrorRunnerClosed>> /\ ~engaged /\ NothingLaunched))

C3_Witness ==
    /\ Returned /\ via = "closed" /\ shutClosed
    /\ ret = <<FALSE, ErrorRunnerClosed>>

(***************************************************************************)
(* C4: when the context is cancelled while TryExec is in its select and    *)
(* recvDone holds no value and is not closed, TryExec can return at once,  *)
(* whatever the receiver and the streamer are doing, and its return is     *)
(* (true, ctx.Err()) and leaves both tasks where they are.                 *)
(***************************************************************************)
CancelPending ==
    pc = "race" /\ ctxErr # Nil /\ chanBuf = <<>> /\ ~chanClosed

C4_CancelReturnsWithoutJoin ==
    /\ [](CancelPending => ENABLED TryExecCtxDone)
    /\ [][(CancelPending /\ pc' = "done") =>
            (ret' = <<TRUE, ctxErr>> /\ rpc' = rpc /\ spc' = spc)]_vars

\* TryExec has returned on cancellation while both tasks are still running
C4_Witness ==
    /\ Returned /\ via = "ctx" /\ ret = <<TRUE, ctxErr>>
    /\ rpc = "loop" /\ spc = "run"
    /\ chanBuf = <<>> /\ ~chanClosed

(***************************************************************************)
(* C5: when the send of the Placement Request fails, TryExec returns the   *)
(* send error itself, with committed=false exactly when the error's status *)
(* code is Unavailable, and launches neither the receiver nor the streamer.*)
(***************************************************************************)
C5_SendFailure ==
    (Returned /\ via = "send") =>
        /\ cause \in SendErrs
        /\ ret[2] = cause
        /\ ret[1] = ~(cause.kind = "grpc" /\ cause.code = 14)
        /\ NothingLaunched

C5_Witness ==
    /\ Returned /\ via = "send" /\ engaged
    /\ ret = <<FALSE, Grpc(14)>>

(***************************************************************************)
(* C6: when Engage fails, TryExec returns (false, err) with that error     *)
(* unmodified; no Placement Request or Data Frame is sent and no task is   *)
(* launched.                                                               *)
(***************************************************************************)
C6_EngageFailure ==
    (Returned /\ via = "engage") =>
        /\ cause \in EngageErrs
        /\ ret = <<FALSE, cause>>
        /\ ~engaged /\ NothingLaunched

C6_Witness ==
    /\ Returned /\ via = "engage"
    /\ ret = <<FALSE, Grpc(13)>>

(***************************************************************************)
(* C7: an exchange in which the worker sends an optional Result Start,     *)
(* then Data Frames, then Finished(success=true), then end-of-stream,      *)
(* every sink write is accepted in full and the context is not cancelled.  *)
(* TryExec returns (true, nil); the sink holds the Result Start's positive *)
(* status and its headers and a body equal to the payloads concatenated in *)
(* the order sent.                                                         *)
(***************************************************************************)
HappyExchange ==
    /\ Returned /\ ctxErr = Nil
    /\ rpc = "exited" /\ posts = <<>>
    /\ HasFinished /\ Fin.success /\ extras = 0
    /\ Len(starts) <= 1
    /\ \A i \in 1..Len(sinkWrites) : sinkWrites[i][1] = sinkWrites[i][2]

HappySink ==
    /\ ret = <<TRUE, Nil>>
    /\ sinkBody = rxBody
    /\ IF starts # <<>>
       THEN /\ sinkStatus = IF starts[1].statusCode > 0 THEN <<starts[1].statusCode>> ELSE <<>>
            /\ \A i \in 1..Len(starts[1].headers) :
                sinkHeader[starts[1].headers[i][1]] = starts[1].headers[i][2]
            /\ starts[1].headers = <<>> => \A k \in HeaderKeys : sinkHeader[k] = ""
       ELSE /\ sinkStatus = <<>>
            /\ \A k \in HeaderKeys : sinkHeader[k] = ""

\* C7 as claimed: the accumulator has grown by exactly the Finished message's
\* execution duration.
C7_HappyPathExecDuration ==
    HappyExchange => (HappySink /\ SumSeq(execTime) = Fin.executionDuration)

\* what one Finished message adds to the accumulator: its execution duration
\* when it carries a non-zero scheduler or execution duration; otherwise
\* completed - started when all three timestamps are valid and ordered;
\* otherwise nothing
ExpectedExecTime(m) ==
    IF m.schedulerDuration # 0 \/ m.executionDuration # 0 THEN m.executionDuration
    ELSE IF /\ m.createdAt > 0 /\ m.startedAt > 0 /\ m.completedAt > 0
            /\ m.startedAt >= m.createdAt /\ m.completedAt >= m.startedAt
         THEN m.completedAt - m.startedAt
         ELSE 0

\* C7 as the code has it: the accumulator has grown by the execution duration
\* when Finished carries a non-zero duration, and by completed - started of
\* valid, ordered timestamps when both durations are zero.
C7_HappyPath ==
    HappyExchange =>
        /\ HappySink
        /\ SumSeq(execTime) = ExpectedExecTime(Fin)
        /\ Len(execTime) <= 1

C7_Witness ==
    /\ HappyExchange
    /\ starts = <<ResultStartMsg(200, <<<<"X", "1">>>>)>>
    /\ rxBody = <<2, 3>>
    /\ fin = <<FinishedMsg(TRUE, 0, "", FALSE, 1, 5, NoTimestamps)>>
    /\ ret = <<TRUE, Nil>>
    /\ sinkStatus = <<200>> /\ sinkHeader["X"] = "1" /\ sinkBody = <<2, 3>>
    /\ execTime = <<5>>

(***************************************************************************)
(* C8: when the first terminal signal of the exchange is a Finished        *)
(* message with success=false and error code 503 and the context is not    *)
(* cancelled, TryExec returns (false, ErrCallTimeoutServerBusy): the       *)
(* sentinel, not the error built from the message.                         *)
(***************************************************************************)
FirstSignalIsFinished ==
    /\ posts # <<>> /\ posts[1][1] = "finished"
    /\ HasFinished /\ ~Fin.success

C8_BusyFinished ==
    (Returned /\ ctxErr = Nil /\ FirstSignalIsFinished /\ Fin.errorCode = 503) =>
        ret = <<FALSE, ErrCallTimeoutServerBusy>>

C8_Witness ==
    /\ Returned /\ ctxErr = Nil /\ FirstSignalIsFinished
    /\ Fin.errorCode = 503 /\ Fin.errorStr = "bad input" /\ ~Fin.errorUser
    /\ ret = <<FALSE, ErrCallTimeoutServerBusy>>
    /\ ret[2] # posts[1][2]

(***************************************************************************)
(* C9: when the first terminal signal of the exchange is a Finished        *)
(* message with success=false and an error code other than 503 and the     *)
(* context is not cancelled, TryExec returns (true, err), err carrying the *)
(* message's error code and tagged as user-caused exactly when the         *)
(* message's user-error flag is set.                                       *)
(***************************************************************************)
FailedFinished ==
    Returned /\ ctxErr = Nil /\ FirstSignalIsFinished /\ Fin.errorCode # 503

FailedFinishedResult ==
    /\ ret[1] = TRUE
    /\ ret[2].kind = "api"
    /\ ret[2].code = Fin.errorCode
    /\ ret[2].user = Fin.errorUser

\* C9 as claimed: err carries the message's error string.
C9_FailedFinishedCarriesString ==
    FailedFinished => (FailedFinishedResult /\ ret[2].str = Fin.errorStr)

\* C9 as the code has it: err carries the message's error string, or
\* "Unknown Error From Pure Runner" when that string is empty.
C9_FailedFinished ==
    FailedFinished =>
        /\ FailedFinishedResult
        /\ ret[2].str = IF Fin.errorStr = "" THEN "Unknown Error From Pure Runner"
                        ELSE Fin.errorStr

C9_Witness ==
    /\ FailedFinished
    /\ Fin.errorCode = 400 /\ Fin.errorStr = "bad input" /\ Fin.errorUser
    /\ ret = <<TRUE, Err("api", 400, "bad input", TRUE)>>

(***************************************************************************)
(* C10: within one exchange the receiver calls the response sink's         *)
(* status-code setter (WriteHeader) at most once, whatever the worker      *)
(* sends.                                                                  *)
(***************************************************************************)
C10_StatusWrittenOnce == Len(sinkStatus) <= 1

(***************************************************************************)
(* C11: once a write to the response sink has reported fewer bytes than    *)
(* the Data Frame supplied, the receiver performs no further sink write,   *)
(* has posted exactly one short-write error however many Data Frames       *)
(* follow, and stays in its main loop, able to receive further frames,     *)
(* Finished or a receive error, instead of returning at once.              *)
(***************************************************************************)
WritePosts == {i \in 1..Len(posts) : posts[i][1] = "write"}

ShortWrite(wr) == wr[2] # wr[1]

C11_PartialWriteLatch ==
    /\ [](isPartialWrite =>
            /\ Cardinality(WritePosts) = 1
            /\ sinkWrites # <<>>
            /\ \A i \in 1..Len(sinkWrites) : ShortWrite(sinkWrites[i]) <=> i = Len(sinkWrites))
    /\ [](~isPartialWrite => WritePosts = {})
    /\ [][isPartialWrite =>
            (isPartialWrite' /\ sinkWrites' = sinkWrites /\ sinkBody' = sinkBody)]_vars
    /\ [][(~isPartialWrite /\ isPartialWrite') =>
            (rpc = "loop" /\ rpc' = "loop" /\ ~chanClosed' /\ nrecv' = nrecv + 1)]_vars
    /\ []((isPartialWrite /\ rpc = "loop") =>
            /\ ENABLED RecvFinished
            /\ ENABLED RecvError
            /\ nrecv < MaxMsgs => ENABLED RecvData)

\* a short write of the first Data Frame, a second Data Frame received and
\* not written, then Finished
C11_Witness ==
    /\ isPartialWrite /\ HasFinished
    /\ rxBody = <<2, 3, 1>>
    /\ sinkWrites = <<<<2, 1>>>> /\ sinkBody = <<2>>
    /\ posts = <<<<"write", ErrShortWrite>>>>

(***************************************************************************)
(* C12: when the worker sends Finished(success=true) and then one or more  *)
(* further messages before end-of-stream, every sink write accepted in     *)
(* full and the context not cancelled, TryExec returns (true, nil), as it  *)
(* does when end-of-stream follows Finished directly.                      *)
(***************************************************************************)
C12_MissingEOFNotEscalated ==
    (/\ Returned /\ via = "recv" /\ ctxErr = Nil
     /\ HasFinished /\ Fin.success /\ extras >= 1
     /\ ~isPartialWrite) =>
        ret = <<TRUE, Nil>>

(***************************************************************************)
(* C13: in no reachable state is the underlying channel closed by Close    *)
(* while a receiver or a streamer launched by an earlier TryExec is still  *)
(* running.                                                                *)
(***************************************************************************)
TaskRunning == rpc \in {"loop", "drain"} \/ spc = "run"

C13_CloseWaitsForTasks == closePc = "closed" => ~TaskRunning

(***************************************************************************)
(* C14: recvDone is closed exactly once, when the receiver returns, on     *)
(* every path; the receiver never posts after the close and is never       *)
(* blocked on a post, also when recvDone already holds a value or TryExec  *)
(* has already returned; and when the receiver ends without having posted, *)
(* TryExec's select reads nil from the closed channel and returns          *)
(* (true, nil).                                                            *)
(***************************************************************************)
C14_TerminalChannelClosedOnce ==
    /\ [](chanClosed <=> rpc = "exited")
    /\ [][chanClosed' # chanClosed =>
            (~chanClosed /\ rpc \in {"loop", "drain"} /\ rpc' = "exited")]_vars
    /\ [][chanClosed =>
            /\ chanClosed' /\ posts' = posts
            /\ chanBuf' = chanBuf \/ (chanBuf # <<>> /\ chanBuf' = Tail(chanBuf))]_vars
    /\ [](Len(chanBuf) <= RecvDoneCap)
    /\ [](rpc = "loop" => (ENABLED RecvFinished /\ ENABLED RecvError))
    /\ [](rpc = "drain" => (ENABLED DrainEOF /\ ENABLED DrainError))
    /\ []((Returned /\ via = "recv" /\ posts = <<>>) =>
            (chanClosed /\ ret = <<TRUE, Nil>>))

\* TryExec has returned on cancellation; the receiver then posted twice, the
\* second post found recvDone full and was dropped, and the receiver
\* returned and closed recvDone
C14_Witness ==
    /\ Returned /\ via = "ctx"
    /\ rpc = "exited" /\ chanClosed
    /\ Len(posts) = 2 /\ posts[2][1] = "drain"
    /\ chanBuf = <<posts[1][2]>> /\ posts[2][2] # posts[1][2]

(***************************************************************************)
(* C15: at most one Placement Request is sent on the stream of an          *)
(* exchange; its send has succeeded before the streamer sends any Data     *)
(* Frame and before the receiver performs any receive, and when its send   *)
(* fails neither task is launched: the Placement Request is the first      *)
(* message on the stream and no Data Frame precedes it.                    *)
(***************************************************************************)
PlacementRequests == {i \in 1..Len(streamOut) : streamOut[i] = TryMsg}

C15_PlacementFirst ==
    /\ Cardinality(PlacementRequests) <= 1
    /\ streamOut # <<>> => PlacementRequests = {1}
    /\ (rpc # "none" \/ spc # "none") => (PlacementSent /\ rpc # "none" /\ spc # "none")
    /\ pc \in {"idle", "marshal", "engage", "send"} =>
            (NothingLaunched /\ nrecv = 0 /\ fin = <<>> /\ posts = <<>>)
    /\ (Returned /\ via = "send") => (NothingLaunched /\ nrecv = 0 /\ fin = <<>>)

\* the Placement Request, then the streamer's Data Frame, and the receiver
\* has received
C15_Witness ==
    /\ streamOut = <<TryMsg, DataFrame(<<>>, TRUE)>>
    /\ nrecv = 1 /\ HasFinished

(***************************************************************************)
(* C16: a receive failure in the receiver's main loop posts that error to  *)
(* recvDone and ends the receiver in the same step, with no further        *)
(* receive, sink write or drain pass; when it is the first value posted    *)
(* and the context is not cancelled, TryExec returns (false,               *)
(* ErrCallTimeoutServerBusy) if the error classifies as busy and (true,    *)
(* that error) otherwise.                                                  *)
(***************************************************************************)
RecvPosts == {i \in 1..Len(posts) : posts[i][1] = "recv"}

sinkVars == <<sinkHeader, sinkStatus, sinkBody, sinkWrites>>

C16_ReceiveFailure ==
    /\ [][(Len(posts') > Len(posts) /\ posts'[Len(posts')][1] = "recv") =>
            /\ rpc = "loop" /\ rpc' = "exited" /\ chanClosed'
            /\ posts'[Len(posts')][2] \in RecvErrs
            /\ chanBuf' = IF chanBuf = <<>> THEN <<posts'[Len(posts')][2]>> ELSE chanBuf
            /\ UNCHANGED <<rxVars, sinkVars, isPartialWrite, execTime>>]_vars
    /\ [](RecvPosts # {} =>
            (RecvPosts = {Len(posts)} /\ rpc = "exited" /\ fin = <<>> /\ extras = 0))
    /\ [][rpc = "exited" =>
            (rpc' = "exited" /\ UNCHANGED <<posts, rxVars, sinkVars, isPartialWrite, execTime>>)]_vars
    /\ []((Returned /\ ctxErr = Nil /\ RecvPosts = {1}) =>
            ret = IF IsBusyError(posts[1][2]) THEN <<FALSE, ErrCallTimeoutServerBusy>>
                  ELSE <<TRUE, posts[1][2]>>)

\* a Data Frame written, then Recv fails with a transport error that is not
\* busy: the receiver has exited without Finished and TryExec has returned
\* that error, committed
C16_Witness ==
    /\ Returned /\ ctxErr = Nil
    /\ posts = <<<<"recv", Grpc(Internal)>>>>
    /\ rpc = "exited" /\ nrecv = 1 /\ sinkBody = <<1>> /\ fin = <<>>
    /\ ret = <<TRUE, Grpc(Internal)>>

(***************************************************************************)
(* C20: in one exchange the execution-time accumulator is added to at most *)
(* once, and only on the Finished message.  If Finished carries a non-zero *)
(* scheduler or execution duration the amount added is the execution       *)
(* duration, nothing when only the scheduler duration is non-zero, and the *)
(* timestamps are not used; if both durations are zero the amount added is *)
(* completed - started when all three timestamps are valid with            *)
(* started >= created and completed >= started, and otherwise nothing.     *)
(***************************************************************************)
ValidTimestamps(m) ==
    /\ m.createdAt > 0 /\ m.startedAt > 0 /\ m.completedAt > 0
    /\ m.startedAt >= m.createdAt /\ m.completedAt >= m.startedAt

ExpectedAdditions(m) ==
    IF m.schedulerDuration # 0 \/ m.executionDuration # 0
    THEN IF m.executionDuration # 0 THEN <<m.executionDuration>> ELSE <<>>
    ELSE IF ValidTimestamps(m) THEN <<m.completedAt - m.startedAt>> ELSE <<>>

C20_ExecTimeAddedOnce ==
    /\ [](Len(execTime) <= 1)
    /\ [](~HasFinished => execTime = <<>>)
    /\ [](HasFinished => execTime = ExpectedAdditions(Fin))
    /\ [][execTime' # execTime =>
            (rpc = "loop" /\ rpc' = "drain" /\ fin = <<>> /\ fin' # <<>>)]_vars
    /\ [][fin # <<>> => (fin' = fin /\ execTime' = execTime)]_vars

\* Finished with a scheduler duration only and valid timestamps: nothing is
\* added, the timestamps are not consulted
C20_Witness ==
    /\ HasFinished /\ rpc = "exited"
    /\ Fin.schedulerDuration = 1 /\ Fin.executionDuration = 0
    /\ ValidTimestamps(Fin)
    /\ execTime = <<>>

(***************************************************************************)
(* C17: the streamer sends one Data Frame per body read, carrying exactly  *)
(* the bytes that read returned, with end-of-stream true if and only if    *)
(* the read returned zero bytes or any error (io.EOF included).  When no   *)
(* send fails it sends exactly one frame with end-of-stream true, that     *)
(* frame is the last it sends, it is sent also after a read error other    *)
(* than io.EOF, and the frame payloads concatenated equal the bytes read   *)
(* from the body.                                                          *)
(***************************************************************************)
\* the Data Frames on the stream: what follows the Placement Request
Frames == IF streamOut = <<>> THEN <<>> ELSE Tail(streamOut)

\* bytes returned by the first i reads
BytesRead(i) == SumSeq([j \in 1..i |-> reads[j][1]])

\* the bytes the i-th read returned
ReadData(i) == SubSeq(Body, BytesRead(i - 1) + 1, BytesRead(i))

RECURSIVE FramePayloads(_)
FramePayloads(fs) == IF fs = <<>> THEN <<>> ELSE Head(fs).data \o FramePayloads(Tail(fs))

StreamerDone == spc = "exited" /\ ~sendFailed

C17_OneFramePerRead ==
    /\ Len(Frames) = IF sendFailed THEN Len(reads) - 1 ELSE Len(reads)
    /\ sendFailed => spc = "exited"
    /\ \A i \in 1..Len(Frames) :
        /\ Frames[i] = DataFrame(ReadData(i), reads[i][1] = 0 \/ reads[i][2] # Nil)
        /\ Frames[i].eof => (i = Len(Frames) /\ spc = "exited")
    /\ StreamerDone =>
        /\ Frames # <<>> /\ Frames[Len(Frames)].eof
        /\ FramePayloads(Frames) = SubSeq(Body, 1, BytesRead(Len(reads)))

\* two bytes read, then one byte read together with an error that is not
\* io.EOF: the last frame carries that byte and end-of-stream
C17_Witness ==
    /\ StreamerDone
    /\ reads = <<<<2, Nil>>, <<1, ReadErr>>>>
    /\ Frames = <<DataFrame(<<1, 2>>, FALSE), DataFrame(<<3>>, TRUE)>>

(***************************************************************************)
(* C18: a streamer fed a body of N bytes with chunk size C, every read     *)
(* filling the buffer whenever enough bytes remain, no read failing and no *)
(* send failing.  As claimed: it emits ceil(N/C) non-final frames of       *)
(* exactly C bytes each, plus one final frame with end-of-stream true that *)
(* carries the remainder, zero-length when N is a multiple of C.           *)
(***************************************************************************)
\* N: the bytes of the body
BodyLen == BytesRead(Len(reads)) + Len(bodyLeft)

\* the streamer has finished, every read returned as many bytes as the
\* buffer and the rest of the body allowed, and no read failed
FullReads ==
    /\ StreamerDone
    /\ \A i \in 1..Len(reads) :
        /\ reads[i][1] = Min(MaxDataChunk, BodyLen - BytesRead(i - 1))
        /\ reads[i][2] \in {Nil, EOF}

NonFinal == {i \in 1..Len(Frames) : ~Frames[i].eof}

CeilDiv(n, c) == (n + c - 1) \div c

C18_CeilFrames ==
    FullReads =>
        /\ Cardinality(NonFinal) = CeilDiv(BodyLen, MaxDataChunk)
        /\ \A i \in NonFinal : Len(Frames[i].data) = MaxDataChunk
        /\ NonFinal = 1..(Len(Frames) - 1)
        /\ Len(Frames[Len(Frames)].data) = BodyLen % MaxDataChunk

\* C18 as the code has it: the first N div C frames carry exactly C bytes
\* each; when N is not a multiple of C the next frame carries the N mod C
\* bytes that remain; exactly one frame has end-of-stream true and it is the
\* last one: the frame with the last bytes when the read that returned them
\* also reported io.EOF, an additional zero-length frame otherwise; the
\* payloads concatenated are the body.
C18_FloorFrames ==
    FullReads =>
        LET q == BodyLen \div MaxDataChunk
            r == BodyLen % MaxDataChunk
            k == Len(Frames)
        IN  /\ k >= 1 /\ NonFinal = 1..(k - 1)
            /\ \A i \in 1..q : Len(Frames[i].data) = MaxDataChunk
            /\ r > 0 => Len(Frames[q + 1].data) = r
            /\ k = q + (IF r > 0 THEN 1 ELSE 0)
                     + (IF reads[Len(reads)][1] = 0 THEN 1 ELSE 0)
            /\ FramePayloads(Frames) = SubSeq(Body, 1, BodyLen)

\* three bytes, chunks of two, end-of-stream reported by a read of its own
C18_Witness ==
    /\ FullReads /\ BodyLen = 3
    /\ reads = <<<<2, Nil>>, <<1, Nil>>, <<0, EOF>>>>
    /\ Frames = <<DataFrame(<<1, 2>>, FALSE), DataFrame(<<3>>, FALSE),
                  DataFrame(<<>>, TRUE)>>

(***************************************************************************)
(* C19: after the caller's context is cancelled and TryExec has returned,  *)
(* with the stream's send and receive operations failing from then on,     *)
(* both tasks exit on their own: the receiver eventually returns and       *)
(* closes recvDone and the streamer eventually returns, also a streamer    *)
(* suspended in a body read and a receiver in the drain pass.              *)
(***************************************************************************)
TasksExited == rpc = "exited" /\ chanClosed /\ spc = "exited"

C19_TasksExitAfterCancel == (Returned /\ via = "ctx") ~> TasksExited

(***************************************************************************)
(* C21: every TryExec call that acquires a session releases it exactly     *)
(* once, on each of its return paths, and a rejected call releases         *)
(* nothing; for any interleaving of concurrent TryExec calls and Close the *)
(* guard's session count equals the number of TryExec calls between        *)
(* acquire and return, is never negative, and is zero once all of them     *)
(* have returned.                                                          *)
(***************************************************************************)
InFlightPcs == {"marshal", "engage", "send", "race"}

InFlight ==
    Cardinality({c \in Calls : callers[c].pc \in InFlightPcs})
    + (IF pc \in InFlightPcs THEN 1 ELSE 0)

AllReturned == Returned /\ \A c \in Calls : callers[c].pc = "done"

C21_SessionBalance ==
    /\ [](sessions = InFlight /\ sessions >= 0)
    /\ [](AllReturned => sessions = 0)
    /\ [](\A c \in Calls :
            /\ callers[c].acquired \in {0, 1} /\ callers[c].released <= callers[c].acquired
            /\ callers[c].pc = "idle" => callers[c].acquired = 0
            /\ callers[c].pc \in InFlightPcs => (callers[c].acquired = 1 /\ callers[c].released = 0)
            /\ callers[c].pc = "done" =>
                    /\ callers[c].released = callers[c].acquired
                    /\ callers[c].acquired = IF callers[c].via = "closed" THEN 0 ELSE 1
                    /\ callers[c].via \in {"closed", "marshal", "engage", "send", "ctx", "recv"})
    /\ [][(pc = "idle" /\ pc' # pc) =>
            IF pc' = "done" THEN via' = "closed" /\ sessions' = sessions
            ELSE sessions' = sessions + 1]_vars
    /\ [][(pc \in InFlightPcs /\ pc' = "done") =>
            (sessions' = sessions - 1
             /\ via' \in {"marshal", "engage", "send", "ctx", "recv"})]_vars

\* Close is waiting; the call modelled in full is in its select and another
\* call has sent its Placement Request, each holding a session; a third call
\* was refused
C21_Witness ==
    /\ closePc = "wait" /\ sessions = 2
    /\ pc = "race"
    /\ callers[1].pc = "send" /\ callers[1].acquired = 1
    /\ callers[2].pc = "done" /\ callers[2].via = "closed" /\ callers[2].released = 0

====
